---- MODULE Spec2Model ----
(***************************************************************************)
(* Model of the paprika router (package router): the page history with    *)
(* its Mount/Unmount lifecycle (Push, Pop) and the frame loop (Run).       *)
(*                                                                         *)
(* The specifications share the variables:                                 *)
(*   Spec     a client calls Push and Pop on a freshly built router; every *)
(*            call is recorded in `trace` with the hook calls it made.     *)
(*   RunSpec  Router.Run drives the frame loop; the Update hook of the     *)
(*            current page may call Push and Pop (as HomePage.Update       *)
(*            does); the hook calls of one iteration are kept in `frame`.  *)
(*   FairRunSpec  RunSpec in which Run keeps running and hooks return.     *)
(*   CtxSpec  a client calls CtxSetValue and CtxValue.                     *)
(*   DispatchSpec  the four dispatch functions of page.go, called with     *)
(*            any page or nil.                                             *)
(*                                                                         *)
(* Pages are interface values holding pointers: two entries of the history *)
(* may be the same page.  A page is a number in Pages, Nil is the nil      *)
(* interface value.  The code runs on one goroutine; Mount and Unmount     *)
(* hooks are taken not to call back into the router.  r.history is a uint  *)
(* converted with int(); the model keeps it far below 2^63, where the      *)
(* conversion is the identity.                                             *)
(***************************************************************************)
EXTENDS Integers, Sequences, FiniteSets

\* ---- bounds ----
NumPages == 3
MaxHistory == 2
MaxOps == 5
MaxHookOps == 2

\* ---- program constants ----
DefaultHistory == 10

Nil == 0
Pages == 1..NumPages

VARIABLES
  history,            \* r.history: the history limit
  pageHistory,        \* r.pageHistory: oldest first, last = active page
  defaultPage,        \* r.defaultPage, Nil when not configured
  ctx,                \* r.ctx: the chain of context.WithValue pairs
  ctxDone,            \* r.ctx.Done() is closed
  windowShouldClose,  \* what rl.WindowShouldClose() reports
  pc,                 \* control position: "main" (client code), Run's labels
  currentPage,        \* Run's local variable currentPage
  mounted,            \* pages whose latest lifecycle call was Mount
  trace,              \* Spec: the Push/Pop calls made so far, in order
  frame               \* RunSpec: the calls of the current Run iteration

vars == <<history, pageHistory, defaultPage, ctx, ctxDone, windowShouldClose,
          pc, currentPage, mounted, trace, frame>>

Call(e, page) == [ev |-> e, page |-> page]

\* ---- page.go: lifecycle dispatch; each yields the hook calls it makes ----
\* Mutant of mountPage: the nil check is missing, page.Mount is called on
\* whatever it is given.
mountPageUnchecked(page) == <<Call("Mount", page)>>

mountPage(page) == IF page = Nil THEN <<>> ELSE <<Call("Mount", page)>>

unmountPage(page) == IF page = Nil THEN <<>> ELSE <<Call("Unmount", page)>>

updatePage(page) == IF page = Nil THEN <<>> ELSE <<Call("Update", page)>>

drawPage(page) == IF page = Nil THEN <<>> ELSE <<Call("Draw", page)>>

\* Mutant of current: answers the oldest entry instead of the last.
currentOldest(h) == IF Len(h) = 0 THEN Nil ELSE h[1]

\* ---- Router.current ----
current(h) == IF Len(h) = 0 THEN Nil ELSE h[Len(h)]

\* ---- Router.Push ----
\* r.pageHistory[1:] on an empty slice panics (slice bounds out of range).
PushPanics(h, limit) == Len(h) >= limit /\ Len(h) = 0

\* Mutant of PushEvict: evicts only once the limit is exceeded.
PushEvictLate(h, limit) == IF Len(h) > limit THEN Tail(h) ELSE h

\* Mutant of PushEvict: drops the newest entry instead of the oldest.
PushEvictNewest(h, limit) ==
  IF Len(h) >= limit THEN SubSeq(h, 1, Len(h) - 1) ELSE h

PushEvict(h, limit) == IF Len(h) >= limit THEN Tail(h) ELSE h

PushUnmount(h1) == IF Len(h1) # 0 THEN unmountPage(h1[Len(h1)]) ELSE <<>>

\* Mutant of PushResult: unmounts the active page before evicting.
PushResultUnmountFirst(h, limit, page) ==
  [pages |-> Append(PushEvict(h, limit), page),
   calls |-> PushUnmount(h) \o mountPage(page)]

PushResult(h, limit, page) ==
  LET h1 == PushEvict(h, limit)
  IN  [pages |-> Append(h1, page),
       calls |-> PushUnmount(h1) \o mountPage(page)]

\* Mutant of PopResult: an empty history falls back to the default page.
PopResultMountsDefault(h) ==
  IF Len(h) = 0
  THEN [pages |-> h, calls |-> mountPage(defaultPage), ret |-> defaultPage]
  ELSE LET lastPage == h[Len(h)]
           h1 == SubSeq(h, 1, Len(h) - 1)
       IN  IF Len(h1) = 0
           THEN [pages |-> h1, calls |-> unmountPage(lastPage), ret |-> Nil]
           ELSE [pages |-> h1,
                 calls |-> unmountPage(lastPage) \o mountPage(h1[Len(h1)]),
                 ret |-> lastPage]

\* Mutant of PopResult: the previous page is mounted before the popped
\* page is unmounted.
PopResultMountFirst(h) ==
  IF Len(h) = 0
  THEN [pages |-> h, calls |-> <<>>, ret |-> Nil]
  ELSE LET lastPage == h[Len(h)]
           h1 == SubSeq(h, 1, Len(h) - 1)
       IN  IF Len(h1) = 0
           THEN [pages |-> h1, calls |-> unmountPage(lastPage), ret |-> Nil]
           ELSE [pages |-> h1,
                 calls |-> mountPage(h1[Len(h1)]) \o unmountPage(lastPage),
                 ret |-> lastPage]

\* ---- Router.Pop ----
PopResult(h) ==
  IF Len(h) = 0
  THEN [pages |-> h, calls |-> <<>>, ret |-> Nil]
  ELSE LET lastPage == h[Len(h)]
           h1 == SubSeq(h, 1, Len(h) - 1)
       IN  IF Len(h1) = 0
           THEN [pages |-> h1, calls |-> unmountPage(lastPage), ret |-> Nil]
           ELSE [pages |-> h1,
                 calls |-> unmountPage(lastPage) \o mountPage(h1[Len(h1)]),
                 ret |-> lastPage]

\* The effect of a sequence of hook calls on the set of mounted pages.
RECURSIVE ApplyCalls(_, _)
ApplyCalls(m, calls) ==
  IF calls = <<>> THEN m
  ELSE LET c == Head(calls)
           m1 == IF c.ev = "Mount" THEN m \cup {c.page}
                 ELSE IF c.ev = "Unmount" THEN m \ {c.page}
                 ELSE m
       IN  ApplyCalls(m1, Tail(calls))

\* ---- NewRouter and its options ----
HistoryValues == (0..MaxHistory) \cup {DefaultHistory}

NewRouter ==
  /\ history \in HistoryValues
  /\ defaultPage \in {Nil, 1}
  /\ ctx = <<>>
  /\ ctxDone = FALSE
  /\ windowShouldClose = FALSE
  /\ pageHistory = <<>>
  /\ currentPage = Nil
  /\ mounted = {}
  /\ trace = <<>>
  /\ frame = <<>>

Init == NewRouter /\ pc = "main"

\* ---- Spec: client calls ----
Push(page) ==
  /\ pc = "main"
  /\ Len(trace) < MaxOps
  /\ IF PushPanics(pageHistory, history)
     THEN /\ pc' = "panic"
          /\ trace' = Append(trace, [op |-> "Push", page |-> page,
                                     pre |-> pageHistory, calls |-> <<>>,
                                     ret |-> Nil, panicked |-> TRUE])
          /\ UNCHANGED <<pageHistory, mounted>>
     ELSE LET res == PushResult(pageHistory, history, page)
          IN  /\ pageHistory' = res.pages
              /\ mounted' = ApplyCalls(mounted, res.calls)
              /\ trace' = Append(trace, [op |-> "Push", page |-> page,
                                         pre |-> pageHistory,
                                         calls |-> res.calls,
                                         ret |-> Nil, panicked |-> FALSE])
              /\ pc' = pc
  /\ UNCHANGED <<history, defaultPage, ctx, ctxDone, windowShouldClose,
                 currentPage, frame>>

Pop ==
  /\ pc = "main"
  /\ Len(trace) < MaxOps
  /\ LET res == PopResult(pageHistory)
     IN  /\ pageHistory' = res.pages
         /\ mounted' = ApplyCalls(mounted, res.calls)
         /\ trace' = Append(trace, [op |-> "Pop", page |-> Nil,
                                    pre |-> pageHistory, calls |-> res.calls,
                                    ret |-> res.ret, panicked |-> FALSE])
  /\ UNCHANGED <<history, defaultPage, ctx, ctxDone, windowShouldClose,
                 pc, currentPage, frame>>

Next == (\E page \in Pages : Push(page)) \/ Pop

Spec == Init /\ [][Next]_vars

\* ---- RunSpec: Router.Run ----
\* Before Run the host may have pushed a first page (Router.Push on the
\* fresh router); with history = 0 that Push panics, so the history is empty.
RunInit ==
  /\ history \in 0..MaxHistory
  /\ defaultPage \in {Nil, 1}
  /\ ctx = <<>>
  /\ ctxDone = FALSE
  /\ windowShouldClose = FALSE
  /\ \/ pageHistory = <<>> /\ mounted = {}
     \/ \E page \in Pages :
          /\ ~PushPanics(<<>>, history)
          /\ pageHistory = PushResult(<<>>, history, page).pages
          /\ mounted = ApplyCalls({}, PushResult(<<>>, history, page).calls)
  /\ currentPage = Nil
  /\ trace = <<>>
  /\ frame = <<>>
  /\ pc = "loop"

\* The Push and Pop calls the Update hook has made in this iteration.
HookOps(f) ==
  Cardinality({i \in DOMAIN f :
                 /\ f[i].ev \in {"Push", "Pop"}
                 /\ \E j \in 1..(i - 1) : f[j].ev = "Update"})

\* Mutant of RunLoop: on window close the active page is unmounted before
\* Run returns.
RunLoopTeardown ==
  /\ pc = "loop"
  /\ IF windowShouldClose
     THEN /\ pc' = "done"
          /\ frame' = frame \o unmountPage(current(pageHistory))
          /\ mounted' = ApplyCalls(mounted, unmountPage(current(pageHistory)))
     ELSE /\ pc' = "select"
          /\ UNCHANGED <<frame, mounted>>
  /\ UNCHANGED <<history, pageHistory, defaultPage, ctx, ctxDone,
                 windowShouldClose, currentPage, trace>>

\* for !rl.WindowShouldClose()
RunLoop ==
  /\ pc = "loop"
  /\ pc' = IF windowShouldClose THEN "done" ELSE "select"
  /\ UNCHANGED <<history, pageHistory, defaultPage, ctx, ctxDone,
                 windowShouldClose, currentPage, mounted, trace, frame>>

\* select { case <-r.ctx.Done(): return; default: ... }
RunSelect ==
  /\ pc = "select"
  /\ pc' = IF ctxDone THEN "done" ELSE "resolve"
  /\ UNCHANGED <<history, pageHistory, defaultPage, ctx, ctxDone,
                 windowShouldClose, currentPage, mounted, trace, frame>>

\* Mutant of RunResolve: after pushing the default page, currentPage is
\* left as r.current() returned it.
RunResolveKeepsNil ==
  /\ pc = "resolve"
  /\ LET cur == current(pageHistory)
     IN  IF cur # Nil
         THEN /\ currentPage' = cur
              /\ frame' = <<>>
              /\ pc' = "update"
              /\ UNCHANGED <<pageHistory, mounted>>
         ELSE IF defaultPage = Nil
         THEN /\ currentPage' = Nil
              /\ frame' = <<>>
              /\ pc' = "loop"
              /\ UNCHANGED <<pageHistory, mounted>>
         ELSE IF PushPanics(pageHistory, history)
         THEN /\ currentPage' = Nil
              /\ frame' = <<Call("Push", defaultPage)>>
              /\ pc' = "panic"
              /\ UNCHANGED <<pageHistory, mounted>>
         ELSE LET res == PushResult(pageHistory, history, defaultPage)
              IN  /\ pageHistory' = res.pages
                  /\ mounted' = ApplyCalls(mounted, res.calls)
                  /\ frame' = <<Call("Push", defaultPage)>> \o res.calls
                  /\ currentPage' = cur
                  /\ pc' = "update"
  /\ UNCHANGED <<history, defaultPage, ctx, ctxDone, windowShouldClose, trace>>

\* Mutant of RunResolve: without a page and without a default page the
\* iteration goes on to update and draw instead of continuing the loop.
RunResolveNoContinue ==
  /\ pc = "resolve"
  /\ LET cur == current(pageHistory)
     IN  IF cur # Nil \/ defaultPage = Nil
         THEN /\ currentPage' = cur
              /\ frame' = <<>>
              /\ pc' = "update"
              /\ UNCHANGED <<pageHistory, mounted>>
         ELSE IF PushPanics(pageHistory, history)
         THEN /\ currentPage' = Nil
              /\ frame' = <<Call("Push", defaultPage)>>
              /\ pc' = "panic"
              /\ UNCHANGED <<pageHistory, mounted>>
         ELSE LET res == PushResult(pageHistory, history, defaultPage)
              IN  /\ pageHistory' = res.pages
                  /\ mounted' = ApplyCalls(mounted, res.calls)
                  /\ frame' = <<Call("Push", defaultPage)>> \o res.calls
                  /\ currentPage' = defaultPage
                  /\ pc' = "update"
  /\ UNCHANGED <<history, defaultPage, ctx, ctxDone, windowShouldClose, trace>>

\* currentPage = r.current(), with the fallback to the default page
RunResolve ==
  /\ pc = "resolve"
  /\ LET cur == current(pageHistory)
     IN  IF cur # Nil
         THEN /\ currentPage' = cur
              /\ frame' = <<>>
              /\ pc' = "update"
              /\ UNCHANGED <<pageHistory, mounted>>
         ELSE IF defaultPage = Nil
         THEN /\ currentPage' = Nil
              /\ frame' = <<>>
              /\ pc' = "loop"
              /\ UNCHANGED <<pageHistory, mounted>>
         ELSE IF PushPanics(pageHistory, history)
         THEN /\ currentPage' = Nil
              /\ frame' = <<Call("Push", defaultPage)>>
              /\ pc' = "panic"
              /\ UNCHANGED <<pageHistory, mounted>>
         ELSE LET res == PushResult(pageHistory, history, defaultPage)
              IN  /\ pageHistory' = res.pages
                  /\ mounted' = ApplyCalls(mounted, res.calls)
                  /\ frame' = <<Call("Push", defaultPage)>> \o res.calls
                  /\ currentPage' = defaultPage
                  /\ pc' = "update"
  /\ UNCHANGED <<history, defaultPage, ctx, ctxDone, windowShouldClose, trace>>

\* updatePage(r, currentPage): the hook is entered
RunUpdate ==
  /\ pc = "update"
  /\ frame' = frame \o updatePage(currentPage)
  /\ pc' = IF currentPage = Nil THEN "begin" ELSE "inUpdate"
  /\ UNCHANGED <<history, pageHistory, defaultPage, ctx, ctxDone,
                 windowShouldClose, currentPage, mounted, trace>>

\* the page's Update calls r.Push (HomePage.Update, key right)
UpdatePush(page) ==
  /\ pc = "inUpdate"
  /\ HookOps(frame) < MaxHookOps
  /\ IF PushPanics(pageHistory, history)
     THEN /\ pc' = "panic"
          /\ frame' = Append(frame, Call("Push", page))
          /\ UNCHANGED <<pageHistory, mounted>>
     ELSE LET res == PushResult(pageHistory, history, page)
          IN  /\ pageHistory' = res.pages
              /\ mounted' = ApplyCalls(mounted, res.calls)
              /\ frame' = Append(frame, Call("Push", page)) \o res.calls
              /\ pc' = pc
  /\ UNCHANGED <<history, defaultPage, ctx, ctxDone, windowShouldClose,
                 currentPage, trace>>

\* the page's Update calls r.Pop (HomePage.Update, key left)
UpdatePop ==
  /\ pc = "inUpdate"
  /\ HookOps(frame) < MaxHookOps
  /\ LET res == PopResult(pageHistory)
     IN  /\ pageHistory' = res.pages
         /\ mounted' = ApplyCalls(mounted, res.calls)
         /\ frame' = Append(frame, Call("Pop", res.ret)) \o res.calls
  /\ UNCHANGED <<history, defaultPage, ctx, ctxDone, windowShouldClose,
                 pc, currentPage, trace>>

\* Mutant of UpdateReturn: cancellation is polled again after Update.
UpdateReturnPollsCancel ==
  /\ pc = "inUpdate"
  /\ pc' = IF ctxDone THEN "done" ELSE "begin"
  /\ UNCHANGED <<history, pageHistory, defaultPage, ctx, ctxDone,
                 windowShouldClose, currentPage, mounted, trace, frame>>

\* the page's Update returns
UpdateReturn ==
  /\ pc = "inUpdate"
  /\ pc' = "begin"
  /\ UNCHANGED <<history, pageHistory, defaultPage, ctx, ctxDone,
                 windowShouldClose, currentPage, mounted, trace, frame>>

RunBeginDrawing ==
  /\ pc = "begin"
  /\ frame' = Append(frame, Call("BeginDrawing", Nil))
  /\ pc' = "draw"
  /\ UNCHANGED <<history, pageHistory, defaultPage, ctx, ctxDone,
                 windowShouldClose, currentPage, mounted, trace>>

\* Mutant of RunDraw: draws the page that is current now instead of the
\* one resolved at the start of the iteration.
RunDrawLatest ==
  /\ pc = "draw"
  /\ frame' = frame \o drawPage(current(pageHistory))
  /\ pc' = "end"
  /\ UNCHANGED <<history, pageHistory, defaultPage, ctx, ctxDone,
                 windowShouldClose, currentPage, mounted, trace>>

RunDraw ==
  /\ pc = "draw"
  /\ frame' = frame \o drawPage(currentPage)
  /\ pc' = "end"
  /\ UNCHANGED <<history, pageHistory, defaultPage, ctx, ctxDone,
                 windowShouldClose, currentPage, mounted, trace>>

RunEndDrawing ==
  /\ pc = "end"
  /\ frame' = Append(frame, Call("EndDrawing", Nil))
  /\ pc' = "loop"
  /\ UNCHANGED <<history, pageHistory, defaultPage, ctx, ctxDone,
                 windowShouldClose, currentPage, mounted, trace>>

\* the context is cancelled (by the host, or from inside a hook)
Cancel ==
  /\ pc \notin {"done", "panic"}
  /\ ~ctxDone
  /\ ctxDone' = TRUE
  /\ UNCHANGED <<history, pageHistory, defaultPage, ctx, windowShouldClose,
                 pc, currentPage, mounted, trace, frame>>

\* the user closes the window
WindowClose ==
  /\ pc \notin {"done", "panic"}
  /\ ~windowShouldClose
  /\ windowShouldClose' = TRUE
  /\ UNCHANGED <<history, pageHistory, defaultPage, ctx, ctxDone,
                 pc, currentPage, mounted, trace, frame>>

RunNext ==
  \/ RunLoop
  \/ RunSelect
  \/ RunResolve
  \/ RunUpdate
  \/ \E page \in Pages : UpdatePush(page)
  \/ UpdatePop
  \/ UpdateReturn
  \/ RunBeginDrawing
  \/ RunDraw
  \/ RunEndDrawing
  \/ Cancel
  \/ WindowClose

RunSpec == RunInit /\ [][RunNext]_vars

\* ======================= properties of Push and Pop (Spec) ===============
LastOp == trace[Len(trace)]

LastPushReturned ==
  trace # <<>> /\ LastOp.op = "Push" /\ ~LastOp.panicked

Range(f) == {f[i] : i \in DOMAIN f}

CountCalls(calls, e) == Cardinality({i \in DOMAIN calls : calls[i].ev = e})

\* The pages pushed so far are pairwise distinct.
PushesDistinct ==
  \A i, j \in DOMAIN trace :
    (i # j /\ trace[i].op = "Push" /\ trace[j].op = "Push")
      => trace[i].page # trace[j].page

\* C1: with a history limit of at least 1, the history holds at most
\* `history` pages after every Push that returns.
C1_BoundInvariant ==
  (history >= 1 /\ LastPushReturned) => Len(pageHistory) <= history

\* C1 witness: a Push on a full history evicted and returned.
C1_Witness ==
  /\ history >= 1
  /\ LastPushReturned
  /\ Len(LastOp.pre) = history
  /\ Len(pageHistory) = history

\* C2: with a history limit of at least 1 and pairwise distinct pages, the
\* mounted pages are exactly the active page (none on an empty history).
C2_ExclusiveMounting ==
  (history >= 1 /\ PushesDistinct)
    => mounted = (IF pageHistory = <<>> THEN {} ELSE {current(pageHistory)})

\* trace is n pushes of distinct pages followed by n pops.
IsPushPopRun(n) ==
  /\ Len(trace) = 2 * n
  /\ \A i \in 1..n : trace[i].op = "Push" /\ ~trace[i].panicked
  /\ \A i \in (n + 1)..(2 * n) : trace[i].op = "Pop"
  /\ PushesDistinct

\* C3: pushing n distinct pages (n within the limit) and popping n times
\* returns the pages in reverse order and leaves the history empty.
C3_PushPopSymmetry ==
  \A n \in 1..MaxOps :
    (n <= history /\ IsPushPopRun(n))
      => /\ \A i \in 1..n : trace[n + i].ret = trace[n + 1 - i].page
         /\ pageHistory = <<>>

\* C4: Pop on a non-empty history returns the page that was last; it
\* returns nil only on an empty history.
C4_PopReturnsLast ==
  \A i \in DOMAIN trace :
    trace[i].op = "Pop"
      => trace[i].ret = (IF trace[i].pre = <<>> THEN Nil
                         ELSE trace[i].pre[Len(trace[i].pre)])

\* C5: with a history limit of at least 1, a Push on a non-empty history
\* calls Unmount on the page that was active and then Mount on the new
\* page: one Mount, at most one Unmount, the Unmount first.
C5_UnmountBeforeMount ==
  (history >= 1 /\ LastPushReturned /\ LastOp.pre # <<>>)
    => /\ CountCalls(LastOp.calls, "Mount") = 1
       /\ CountCalls(LastOp.calls, "Unmount") <= 1
       /\ \E i, j \in DOMAIN LastOp.calls :
            /\ i < j
            /\ LastOp.calls[i] = Call("Unmount", LastOp.pre[Len(LastOp.pre)])
            /\ LastOp.calls[j] = Call("Mount", LastOp.page)

\* C6: with a history limit of 0 every Push completes without a fault and
\* calls Mount on the pushed page exactly once.
C6_ZeroHistoryLegal ==
  history = 0
    => /\ pc # "panic"
       /\ \A i \in DOMAIN trace :
            trace[i].op = "Push"
              => /\ ~trace[i].panicked
                 /\ trace[i].calls = <<Call("Mount", trace[i].page)>>

\* C7: Pop on an empty history returns nil, makes no Mount or Unmount call
\* and leaves the history, the limit, the default page and the context
\* as they were.
C7_PopEmptyNoEffect ==
  [][(/\ pageHistory = <<>>
      /\ Len(trace') = Len(trace) + 1
      /\ trace'[Len(trace')].op = "Pop")
       => /\ trace'[Len(trace')].ret = Nil
          /\ trace'[Len(trace')].calls = <<>>
          /\ UNCHANGED <<pageHistory, mounted, history, defaultPage,
                         ctx, ctxDone, pc>>]_vars

\* C7 witness: a Pop was made on an empty history of a router that has a
\* default page.
C7_Witness ==
  /\ trace # <<>>
  /\ LastOp.op = "Pop"
  /\ LastOp.pre = <<>>
  /\ defaultPage # Nil

\* A Push on a full history of a page that is none of its entries.
EvictingPush ==
  /\ history >= 1
  /\ LastPushReturned
  /\ Len(LastOp.pre) = history
  /\ LastOp.page \notin Range(LastOp.pre)

\* C8 as stated: on such a Push the evicted oldest entry receives neither
\* Mount nor Unmount.
C8_EvictionSilence ==
  EvictingPush
    => \A i \in DOMAIN LastOp.calls : LastOp.calls[i].page # LastOp.pre[1]

\* C8 amended: the same, provided the oldest entry is not also the last
\* entry of a history of two or more entries.
C8_EvictionSilenceAmended ==
  (/\ EvictingPush
   /\ (Len(LastOp.pre) = 1 \/ LastOp.pre[1] # LastOp.pre[Len(LastOp.pre)]))
    => \A i \in DOMAIN LastOp.calls : LastOp.calls[i].page # LastOp.pre[1]

\* C8 witness: an evicting Push that made an Unmount call, on a page other
\* than the evicted one.
C8_Witness ==
  /\ EvictingPush
  /\ LastOp.pre[1] # LastOp.pre[Len(LastOp.pre)]
  /\ CountCalls(LastOp.calls, "Unmount") = 1

\* ======================= properties of Run (RunSpec) =====================
\* Run itself pushed the default page in the iteration `f` records: its
\* Push is the first call of the iteration.
RunPushedDefault(f) ==
  /\ defaultPage # Nil
  /\ f # <<>>
  /\ f[1] = Call("Push", defaultPage)

\* Run is between two iterations: `frame` holds a whole iteration.
BetweenIterations == pc \in {"loop", "select", "resolve", "done"}

\* The pages that received Update or Draw in the iteration `f` records.
FramePages(f) == {f[i].page : i \in {j \in DOMAIN f : f[j].ev \in {"Update", "Draw"}}}

\* C9: with a default page and a history limit of at least 1, an iteration
\* pushes and mounts the default page exactly when the history is empty at
\* its start; after an iteration whose Update made no Push or Pop the next
\* one does not push it again; and the iteration that pushed it updates
\* and draws the default page.
C9_DefaultFallback ==
  /\ [][(/\ pc = "resolve"
         /\ pc' # "resolve"
         /\ defaultPage # Nil
         /\ history >= 1)
          => /\ (pageHistory = <<>>) <=> RunPushedDefault(frame')
             /\ pageHistory = <<>>
                  => /\ pageHistory' = <<defaultPage>>
                     /\ Call("Mount", defaultPage) \in Range(frame')
                     /\ defaultPage \in mounted'
                     /\ currentPage' = defaultPage
             /\ (Call("Update", currentPage) \in Range(frame)
                 /\ HookOps(frame) = 0)
                  => ~RunPushedDefault(frame')]_vars
  /\ [](history >= 1 /\ RunPushedDefault(frame)
          => /\ FramePages(frame) \subseteq {defaultPage}
             /\ BetweenIterations
                  => /\ Call("Update", defaultPage) \in Range(frame)
                     /\ Call("Draw", defaultPage) \in Range(frame))

\* C9 witness: an iteration pushed the default page, its Update made no
\* Push or Pop, and it drew the default page.
C9_Witness ==
  /\ history >= 1
  /\ pc = "loop"
  /\ RunPushedDefault(frame)
  /\ HookOps(frame) = 0
  /\ Call("Draw", defaultPage) \in Range(frame)

\* Every Update of the iteration is followed by a Draw on the same page.
FrameComplete(f) ==
  \A i \in DOMAIN f :
    f[i].ev = "Update"
      => \E j \in DOMAIN f : j > i /\ f[j] = Call("Draw", f[i].page)

\* C10: Run returns only between iterations: a page that received Update
\* has received Draw when Run has returned, whenever the cancellation
\* fired; and once cancellation is seen at the top of an iteration Run
\* returns without another call.
C10_CancelAtBoundary ==
  /\ [](pc = "done" => FrameComplete(frame))
  /\ [][(pc = "select" /\ ctxDone)
          => /\ pc' \in {"select", "done"}
             /\ UNCHANGED <<frame, pageHistory, mounted, currentPage>>]_vars
  /\ [][pc = "done" => UNCHANGED vars]_vars

\* C10 witness: cancellation fired after the iteration began, and the page
\* that was updated has still been drawn.
C10_Witness ==
  /\ pc = "end"
  /\ ctxDone
  /\ ~windowShouldClose
  /\ Call("Update", currentPage) \in Range(frame)
  /\ Call("Draw", currentPage) \in Range(frame)

\* Run's own steps, and the return of the page's Update hook.
RunStep ==
  \/ RunLoop
  \/ RunSelect
  \/ RunResolve
  \/ RunUpdate
  \/ UpdateReturn
  \/ RunBeginDrawing
  \/ RunDraw
  \/ RunEndDrawing

\* Run keeps running and every hook returns; nothing forces the host to
\* cancel or to close the window.
FairRunSpec == RunSpec /\ WF_vars(RunStep)

\* C11: Run ends only through window-close or cancellation: whenever Run
\* has ended, one of the two signals has fired.
C11_EndsOnlyOnSignal ==
  pc \in {"done", "panic"} => (windowShouldClose \/ ctxDone)

\* C11, the part that holds of the code: with a history limit of at least
\* 1, Run returns only after a signal, and once a signal has fired Run
\* returns (FairRunSpec).
C11_ReturnsOnSignal ==
  /\ [](history >= 1 => (pc \in {"done", "panic"} => (windowShouldClose \/ ctxDone)))
  /\ (history >= 1 /\ (windowShouldClose \/ ctxDone)) ~> (pc = "done")

\* C12: an iteration that starts on an empty history with no default page
\* makes no call at all (no Update, Draw, Mount, Unmount, BeginDrawing or
\* EndDrawing), leaves the history empty and goes on to the next iteration
\* without a fault; no frame is ever begun without a page.
C12_IdleIteration ==
  /\ [][(/\ pc = "resolve"
         /\ pc' # "resolve"
         /\ pageHistory = <<>>
         /\ defaultPage = Nil)
          => /\ pc' = "loop"
             /\ frame' = <<>>
             /\ pageHistory' = <<>>
             /\ mounted' = mounted]_vars
  /\ [](pc \in {"update", "inUpdate", "begin", "draw", "end"}
          => currentPage # Nil)

\* C12 witness: Run has idled on a history that was emptied while it ran
\* (at start an empty history has no mounted page; here one is left
\* mounted, and the iteration before this state made no call).
C12_Witness ==
  /\ pc = "loop"
  /\ frame = <<>>
  /\ pageHistory = <<>>
  /\ defaultPage = Nil
  /\ mounted # {}

\* ======================= the shared context (CtxSpec) ====================
\* bound of CtxSpec: the CtxSetValue and CtxValue calls made
MaxCtxOps == 4

Keys == {"k1", "k2"}
Values == {"v1", "v2"}
\* the nil interface{} that Value returns for a key it does not find
NoValue == "nil"

\* Mutant of CtxLookup: the oldest pair of the chain wins.
CtxLookupOldest(c, key) ==
  LET hits == {i \in DOMAIN c : c[i].key = key}
  IN  IF hits = {} THEN NoValue
      ELSE c[CHOOSE i \in hits : \A j \in hits : i <= j].val

\* r.ctx.Value(key): a context made by WithValue answers for its own key
\* and asks its parent for any other; the root context knows no key.
RECURSIVE CtxLookup(_, _)
CtxLookup(c, key) ==
  IF c = <<>> THEN NoValue
  ELSE IF c[Len(c)].key = key THEN c[Len(c)].val
  ELSE CtxLookup(SubSeq(c, 1, Len(c) - 1), key)

\* A router built with the default history limit, which may already hold
\* a first page.
CtxInit ==
  /\ history = DefaultHistory
  /\ defaultPage \in {Nil, 1}
  /\ ctx = <<>>
  /\ ctxDone = FALSE
  /\ windowShouldClose = FALSE
  /\ \/ pageHistory = <<>> /\ mounted = {}
     \/ \E page \in Pages :
          /\ pageHistory = PushResult(<<>>, history, page).pages
          /\ mounted = ApplyCalls({}, PushResult(<<>>, history, page).calls)
  /\ currentPage = Nil
  /\ trace = <<>>
  /\ frame = <<>>
  /\ pc = "main"

\* r.ctx = context.WithValue(r.ctx, key, value)
CtxSetValue(key, value) ==
  /\ pc = "main"
  /\ Len(trace) < MaxCtxOps
  /\ ctx' = Append(ctx, [key |-> key, val |-> value])
  /\ trace' = Append(trace, [op |-> "CtxSetValue", key |-> key,
                             value |-> value, ret |-> NoValue])
  /\ UNCHANGED <<history, pageHistory, defaultPage, ctxDone,
                 windowShouldClose, pc, currentPage, mounted, frame>>

\* return r.ctx.Value(key)
CtxValue(key) ==
  /\ pc = "main"
  /\ Len(trace) < MaxCtxOps
  /\ trace' = Append(trace, [op |-> "CtxValue", key |-> key,
                             value |-> NoValue, ret |-> CtxLookup(ctx, key)])
  /\ UNCHANGED <<history, pageHistory, defaultPage, ctx, ctxDone,
                 windowShouldClose, pc, currentPage, mounted, frame>>

CtxNext ==
  \/ \E key \in Keys, value \in Values : CtxSetValue(key, value)
  \/ \E key \in Keys : CtxValue(key)

CtxSpec == CtxInit /\ [][CtxNext]_vars

\* The key-value store a sequence of calls builds, one write at a time.
RECURSIVE StoreAfter(_)
StoreAfter(ops) ==
  IF ops = <<>> THEN [k \in Keys |-> NoValue]
  ELSE LET before == StoreAfter(SubSeq(ops, 1, Len(ops) - 1))
           o == ops[Len(ops)]
       IN  IF o.op = "CtxSetValue"
           THEN [before EXCEPT ![o.key] = o.value]
           ELSE before

\* C13: CtxValue(k) returns the value of the latest CtxSetValue(k, v), no
\* matter what was set for other keys, and nil for a key never set;
\* neither call changes the page history.
C13_LastWriterWins ==
  /\ [](\A i \in DOMAIN trace :
          trace[i].op = "CtxValue"
            => trace[i].ret = StoreAfter(SubSeq(trace, 1, i - 1))[trace[i].key])
  /\ [](\A k \in Keys : CtxLookup(ctx, k) = StoreAfter(trace)[k])
  /\ [][UNCHANGED <<pageHistory, mounted, history, defaultPage>>]_vars

\* C13 witness: a key was set twice to different values, another key was
\* set or read in between or after, and the key was then read.
C13_Witness ==
  /\ Len(trace) >= 3
  /\ LastOp.op = "CtxValue"
  /\ pageHistory # <<>>
  /\ \E i, j \in DOMAIN trace :
       /\ i < j
       /\ trace[i].op = "CtxSetValue" /\ trace[j].op = "CtxSetValue"
       /\ trace[i].key = LastOp.key /\ trace[j].key = LastOp.key
       /\ trace[i].value # trace[j].value
       /\ LastOp.ret = trace[j].value

\* ======================= lifecycle dispatch (DispatchSpec) ===============
\* bound of DispatchSpec: the dispatch calls made
MaxDispatch == 2

\* mountPage(r, page), called with any page or nil
DispatchMount(page) ==
  /\ pc = "main"
  /\ Len(trace) < MaxDispatch
  /\ mounted' = ApplyCalls(mounted, mountPage(page))
  /\ trace' = Append(trace, [op |-> "mountPage", page |-> page,
                             calls |-> mountPage(page)])
  /\ UNCHANGED <<history, pageHistory, defaultPage, ctx, ctxDone,
                 windowShouldClose, pc, currentPage, frame>>

\* unmountPage(r, page)
DispatchUnmount(page) ==
  /\ pc = "main"
  /\ Len(trace) < MaxDispatch
  /\ mounted' = ApplyCalls(mounted, unmountPage(page))
  /\ trace' = Append(trace, [op |-> "unmountPage", page |-> page,
                             calls |-> unmountPage(page)])
  /\ UNCHANGED <<history, pageHistory, defaultPage, ctx, ctxDone,
                 windowShouldClose, pc, currentPage, frame>>

\* updatePage(r, page)
DispatchUpdate(page) ==
  /\ pc = "main"
  /\ Len(trace) < MaxDispatch
  /\ trace' = Append(trace, [op |-> "updatePage", page |-> page,
                             calls |-> updatePage(page)])
  /\ UNCHANGED <<history, pageHistory, defaultPage, ctx, ctxDone,
                 windowShouldClose, pc, currentPage, mounted, frame>>

\* drawPage(r, page)
DispatchDraw(page) ==
  /\ pc = "main"
  /\ Len(trace) < MaxDispatch
  /\ trace' = Append(trace, [op |-> "drawPage", page |-> page,
                             calls |-> drawPage(page)])
  /\ UNCHANGED <<history, pageHistory, defaultPage, ctx, ctxDone,
                 windowShouldClose, pc, currentPage, mounted, frame>>

DispatchNext ==
  \E page \in Pages \cup {Nil} :
    \/ DispatchMount(page)
    \/ DispatchUnmount(page)
    \/ DispatchUpdate(page)
    \/ DispatchDraw(page)

DispatchSpec == Init /\ [][DispatchNext]_vars

\* The hook each dispatch function stands for.
HookOf(fn) ==
  CASE fn = "mountPage" -> "Mount"
    [] fn = "unmountPage" -> "Unmount"
    [] fn = "updatePage" -> "Update"
    [] fn = "drawPage" -> "Draw"

\* C14: each dispatch function makes no call when given nil (so it never
\* calls a method on nil) and, given a page, calls the one hook it stands
\* for on that page, once.
C14_DispatchNilSafe ==
  \A i \in DOMAIN trace :
    /\ \A j \in DOMAIN trace[i].calls : trace[i].calls[j].page # Nil
    /\ trace[i].calls = (IF trace[i].page = Nil THEN <<>>
                         ELSE <<Call(HookOf(trace[i].op), trace[i].page)>>)

\* C14 witness: a dispatch function was called with nil and then one with
\* a page.
C14_Witness ==
  /\ Len(trace) = 2
  /\ trace[1].page = Nil
  /\ trace[1].op = "mountPage"
  /\ trace[2].page # Nil
  /\ trace[2].calls # <<>>

\* ======================= further properties of Push and Pop (Spec) =======
\* The pages mounted after the calls `ops`, made on a fresh router.
RECURSIVE MountedAfter(_)
MountedAfter(ops) ==
  IF ops = <<>> THEN {}
  ELSE ApplyCalls(MountedAfter(SubSeq(ops, 1, Len(ops) - 1)),
                  ops[Len(ops)].calls)

\* C15: with a history limit of at least 1, the entry a Push evicts
\* (the oldest) is not the last entry of the history and is not mounted
\* when it is evicted.
C15_EvictedNotActive ==
  (history >= 1 /\ LastPushReturned /\ Len(LastOp.pre) >= history)
    => /\ Len(LastOp.pre) > 1
       /\ LastOp.pre[1] \notin MountedAfter(SubSeq(trace, 1, Len(trace) - 1))

\* ======================= further properties of Run (RunSpec) =============
\* The positions of the calls `e` in the iteration `f` records.
At(f, e) == {i \in DOMAIN f : f[i].ev = e}

DrawnPageActive ==
  /\ pageHistory # <<>>
  /\ currentPage = pageHistory[Len(pageHistory)]
  /\ currentPage \in mounted

\* C17 as stated: whenever Draw has been dispatched, the page that received
\* it is at that moment the last entry of the history and mounted.
C17_DrawOnActive ==
  (pc = "end" /\ Call("Draw", currentPage) \in Range(frame))
    => DrawnPageActive

\* C17 amended: the page is the last entry and mounted when the iteration
\* resolves it, and still so when Draw is dispatched provided the Update
\* of that iteration called neither Push nor Pop.
C17_DrawOnActiveAmended ==
  /\ pc = "update" => DrawnPageActive
  /\ (/\ pc = "end"
      /\ Call("Draw", currentPage) \in Range(frame)
      /\ HookOps(frame) = 0)
       => DrawnPageActive

\* C17 witness: Draw was dispatched to the last of two history entries in
\* an iteration whose Update left the history alone.
C17_Witness ==
  /\ pc = "end"
  /\ Call("Draw", currentPage) \in Range(frame)
  /\ HookOps(frame) = 0
  /\ Len(pageHistory) = 2
  /\ pageHistory[1] # pageHistory[2]

\* The history Push(p) is to leave: h, without its oldest entry when h is
\* full, followed by p.
PushReference(h, limit, p) ==
  (IF Len(h) < limit THEN h ELSE [i \in 1..(Len(h) - 1) |-> h[i + 1]])
    \o <<p>>

\* C18: with a history limit of at least 1, after Push(p) on the history h
\* the history is h (without its oldest entry if h was full) followed by p:
\* p is last, the kept entries keep their order, at most one is dropped.
C18_PushReference ==
  (history >= 1 /\ LastPushReturned)
    => /\ pageHistory = PushReference(LastOp.pre, history, LastOp.page)
       /\ pageHistory[Len(pageHistory)] = LastOp.page
       /\ Len(pageHistory) >= Len(LastOp.pre)

\* C18 witness: a Push on a full history of two different pages kept the
\* newer one and appended the new page.
C18_Witness ==
  /\ history = 2
  /\ LastPushReturned
  /\ Len(LastOp.pre) = 2
  /\ LastOp.pre[1] # LastOp.pre[2]
  /\ pageHistory = <<LastOp.pre[2], LastOp.page>>

\* C19: Pop on two or more entries calls Unmount on the last entry, then
\* Mount on the entry before it, and removes only the last entry; Pop on a
\* single entry calls Unmount on it, makes no Mount call and leaves the
\* history empty.
C19_PopLifecycle ==
  (trace # <<>> /\ LastOp.op = "Pop" /\ LastOp.pre # <<>>)
    => LET pre == LastOp.pre
           n == Len(pre)
       IN  /\ pageHistory = [i \in 1..(n - 1) |-> pre[i]]
           /\ LastOp.calls =
                (IF n >= 2
                 THEN <<Call("Unmount", pre[n]), Call("Mount", pre[n - 1])>>
                 ELSE <<Call("Unmount", pre[n])>>)

\* C19 witness: a Pop on a history of two different pages.
C19_Witness ==
  /\ trace # <<>>
  /\ LastOp.op = "Pop"
  /\ Len(LastOp.pre) = 2
  /\ LastOp.pre[1] # LastOp.pre[2]
  /\ CountCalls(LastOp.calls, "Mount") = 1

\* C20: Run tears nothing down when it returns: the step that returns
\* makes no call and leaves the history as it is, nothing happens after
\* it, and the page that was active is still in the history and mounted.
C20_NoTeardown ==
  /\ [][(pc # "done" /\ pc' = "done")
          => UNCHANGED <<pageHistory, mounted, frame, currentPage>>]_vars
  /\ [][pc = "done" => UNCHANGED <<pageHistory, mounted, frame>>]_vars
  /\ []((pc = "done" /\ pageHistory # <<>>)
          => pageHistory[Len(pageHistory)] \in mounted)

\* C20 witness: Run has returned on window close after drawing a page that
\* is still the last entry of the history and mounted.
C20_Witness ==
  /\ pc = "done"
  /\ windowShouldClose
  /\ ~ctxDone
  /\ pageHistory # <<>>
  /\ pageHistory[Len(pageHistory)] = currentPage
  /\ currentPage \in mounted
  /\ Call("Draw", currentPage) \in Range(frame)

====
